---- MODULE Spec2Model ----
(***************************************************************************)
(* Model of the text chunker (backend/lib/chunking.js, splitIntoChunks),   *)
(* of the chunk retrieval (tokenizeMessage, scoreChunk, retrieveTopChunks) *)
(* and of the two handlers of the backend server that use them:            *)
(* handlePdfUpload (POST /api/upload) and the handler of POST /api/chat.   *)
(* One call of splitIntoChunks is a process: pc is its position, one       *)
(* WhileBody step is one iteration of its loop.  Each handler is a process *)
(* whose steps end where the code awaits storage, the text extraction or   *)
(* the webhook; the answer to the awaited call starts the next step.       *)
(*                                                                         *)
(* Spec is the chunker alone, SpecTokenize and SpecScore apply the two     *)
(* helper functions to their inputs, SpecRetrieve is one call of           *)
(* retrieveTopChunks against a table of stored chunks, SpecUpload is the   *)
(* upload handler serving one request after the other, and SpecServer is   *)
(* the upload handler and the chat handler serving requests side by side   *)
(* on the same storage.                                                    *)
(***************************************************************************)
EXTENDS Integers, Sequences, FiniteSets, TLC

\* ---- bounds of the model ------------------------------------------------
MaxLen == 5
MaxChunkSize == 3
MaxOverlap == 4

\* Characters of a text: two letters and one whitespace character.
Alphabet == {"a", "b", " "}

Texts == UNION {[1..n -> Alphabet] : n \in 0..MaxLen}

\* Values of the chunkSizeChars argument: the positive sizes and the invalid 0.
ChunkSizes == 0..MaxChunkSize

\* Values of the overlapChars argument: below, equal to and above the chunk
\* size, and the invalid negative overlap.
Overlaps == {-1} \cup (0..MaxOverlap)

VARIABLES
  textGiven,       \* FALSE: the text argument is null/undefined
  text,            \* the text argument (<<>> when it is not given)
  chunkSizeChars,  \* the chunkSizeChars argument
  overlapChars,    \* the overlapChars argument
  pc,              \* "entry", "while", "done" (returned), "mapped"; "idle": no call
  startIndex,      \* let startIndex
  chunks,          \* const chunks = []
  lastWindow,      \* history: the window of the latest loop iteration
  loopTick,        \* history: the number of loop iterations so far, modulo 2
  chunkRecords,    \* handlePdfUpload: const chunkRecords = chunks.map(...)
  calls,           \* 1: first call, 2: the call repeated with the same arguments
  firstResult,     \* the caller's copy of what the first call returned
  \* -- chunk retrieval (tokenizeMessage, scoreChunk, retrieveTopChunks) --
  rpc,             \* position of the retrieval code ("idle": not running)
  msgGiven,        \* FALSE: the message is null/undefined or not a string
  message,         \* the message (<<>> when it is not given)
  keywords,        \* const keywords / the keywords argument of scoreChunk
  scoredContent,   \* the chunkContent argument of scoreChunk
  score,           \* the value scoreChunk returned
  docIdsGiven,     \* FALSE: docIds is null/undefined
  docIds,          \* the docIds argument
  topK,            \* the topK argument (12 when it is left out)
  stored,          \* the rows of table document_chunks
  fetchCount,      \* number of select requests sent to storage
  fetched,         \* allChunks: the rows storage answered, in its order
  fetchError,      \* history: storage answered the select request with an error
  result,          \* the value retrieveTopChunks returned
  \* -- the server: storage, handlePdfUpload and the /api/chat handler --
  documents,       \* the rows of table documents: [doc_id, status, note]
  bucket,          \* the doc_ids whose original.pdf is in the storage bucket
  insertedRows,    \* number of rows inserted into document_chunks so far
  upc,             \* position of handlePdfUpload ("idle": no request)
  uploads,         \* number of upload requests received so far
  upFile,          \* req.file: "none", "pdf" or "other" (its mimetype)
  upDocId,         \* const docId
  upI,             \* let i of the batch loop
  upBatches,       \* history: the batches handed to insert, in order
  upResponses,     \* the HTTP responses sent for the current upload request
  cpc,             \* position of the /api/chat handler ("idle": no request)
  chatMsgGiven,    \* FALSE: req.body.message is missing or not a string
  chatMessage,     \* req.body.message
  chatAttsGiven,   \* FALSE: req.body.attachments is missing or not an array
  chatAtts,        \* req.body.attachments
  retrievalFailed, \* history: retrieveTopChunks threw in this request
  webhookCalls,    \* the payloads posted to the workflow webhook in this request
  chatResponses    \* the HTTP responses sent for the current chat request

chunkVars == <<textGiven, text, chunkSizeChars, overlapChars, pc, startIndex,
               chunks, lastWindow, loopTick, chunkRecords, calls, firstResult>>

retrVars == <<rpc, msgGiven, message, keywords, scoredContent, score,
              docIdsGiven, docIds, topK, stored, fetchCount, fetched, fetchError,
              result>>

uploadVars == <<documents, bucket, insertedRows, upc, uploads, upFile, upDocId,
                upI, upBatches, upResponses>>

chatVars == <<cpc, chatMsgGiven, chatMessage, chatAttsGiven, chatAtts,
              retrievalFailed, webhookCalls, chatResponses>>

serverVars == <<uploadVars, chatVars>>

vars == <<chunkVars, retrVars, serverVars>>

\* ---- helpers ------------------------------------------------------------
Min(a, b) == IF a <= b THEN a ELSE b
Max(a, b) == IF a >= b THEN a ELSE b

IsSpace(c) == c = " "

\* String.prototype.trim: drop the leading and the trailing whitespace.
Trim(s) ==
  LET keep == {i \in 1..Len(s) : ~IsSpace(s[i])}
  IN IF keep = {} THEN <<>>
     ELSE LET first == CHOOSE i \in keep : \A j \in keep : i <= j
              last  == CHOOSE i \in keep : \A j \in keep : j <= i
          IN SubSeq(s, first, last)

\* String.prototype.substring(a, b) on 0-based offsets: both arguments are
\* clamped to 0..length and swapped when a > b.
Substring(s, a, b) ==
  LET ca == Max(0, Min(a, Len(s)))
      cb == Max(0, Min(b, Len(s)))
  IN SubSeq(s, Min(ca, cb) + 1, Max(ca, cb))

\* variant of IsEmptyInput: only the missing text is tested
IsEmptyInput_OnlyMissing(given, t) == ~given

\* line 15: !text || text.length === 0
IsEmptyInput(given, t) == ~given \/ Len(t) = 0

\* variant of EndIndex: the window end is not clipped to the text length
EndIndex_NoMin(s, size, t) == s + size

\* line 23: Math.min(startIndex + chunkSizeChars, text.length)
EndIndex(s, size, t) == Min(s + size, Len(t))

\* variant of IsNonEmptyChunk: a window that holds whitespace is skipped
IsNonEmptyChunk_NoSpace(c) == Len(c) > 0 /\ \A i \in 1..Len(c) : ~IsSpace(c[i])

\* variant of IsNonEmptyChunk: the content is not trimmed before the test
IsNonEmptyChunk_NoTrim(content) == Len(content) > 0

\* line 27: chunkContent.trim().length > 0
IsNonEmptyChunk(content) == Len(Trim(content)) > 0

\* lines 28-32: the pushed chunk
MakeChunk(content, s, e) == [content |-> content, char_start |-> s, char_end |-> e]

\* variant of OverlapTooLarge: strict comparison with the last chunk's start
OverlapTooLarge_Strict(s, cs) ==
  \/ Len(cs) > 0 /\ s < cs[Len(cs)].char_start
  \/ s < 0

\* line 39: startIndex <= chunks[chunks.length - 1]?.char_start || startIndex < 0
\* (with no chunk pushed yet the left operand compares with undefined: false)
OverlapTooLarge(s, cs) ==
  \/ Len(cs) > 0 /\ s <= cs[Len(cs)].char_start
  \/ s < 0

\* variant of NextStartIndex: the overlap is added instead of subtracted
NextStartIndex_SignSlip(e, overlap, cs) ==
  LET s == e + overlap
  IN IF OverlapTooLarge(s, cs) THEN e ELSE s

\* variant of NextStartIndex: the overlap is forgotten
NextStartIndex_NoOverlap(e, overlap, cs) == e

\* lines 36-41: the start index of the next iteration
NextStartIndex(e, overlap, cs) ==
  LET s == e - overlap
  IN IF OverlapTooLarge(s, cs) THEN e ELSE s

\* handlePdfUpload: chunks.map((chunk, index) => ({chunk_index: index, ...}))
ChunkRecords(cs) ==
  [i \in 1..Len(cs) |->
     [chunk_index |-> i - 1,
      content     |-> cs[i].content,
      char_start  |-> cs[i].char_start,
      char_end    |-> cs[i].char_end]]

\* variant of InitialChunks: the array is shared between calls
InitialChunks_Shared(stale) == stale

\* line 19: const chunks = [] (stale: what an earlier call left behind)
InitialChunks(stale) == <<>>

NoWindow == [used |-> FALSE, start |-> 0, end |-> 0, emitted |-> FALSE, next |-> 0]


\* ---- chunk retrieval: characters ----------------------------------------
MinKeywordLen == 4

LowerLetters == <<"a", "b", "c", "d", "e", "f", "g", "h", "i", "j", "k", "l", "m",
                  "n", "o", "p", "q", "r", "s", "t", "u", "v", "w", "x", "y", "z">>
UpperLetters == <<"A", "B", "C", "D", "E", "F", "G", "H", "I", "J", "K", "L", "M",
                  "N", "O", "P", "Q", "R", "S", "T", "U", "V", "W", "X", "Y", "Z">>
Digits == {"0", "1", "2", "3", "4", "5", "6", "7", "8", "9"}

\* the characters \w of a regular expression: [A-Za-z0-9_]
IsWordChar(c) ==
  \/ \E i \in 1..26 : c = LowerLetters[i] \/ c = UpperLetters[i]
  \/ c \in Digits
  \/ c = "_"

\* String.prototype.toLowerCase, character by character
ToLower(c) ==
  IF \E i \in 1..26 : c = UpperLetters[i]
  THEN LowerLetters[CHOOSE i \in 1..26 : c = UpperLetters[i]]
  ELSE c

ToLowerCase(s) == [i \in 1..Len(s) |-> ToLower(s[i])]

\* String.prototype.split(/\W+/): the pieces between the maximal runs of
\* non-word characters; a run at either end leaves an empty piece there
RECURSIVE SplitFrom(_, _, _, _, _)
SplitFrom(s, i, cur, acc, inSep) ==
  IF i > Len(s) THEN Append(acc, cur)
  ELSE IF IsWordChar(s[i]) THEN SplitFrom(s, i + 1, Append(cur, s[i]), acc, FALSE)
  ELSE IF inSep THEN SplitFrom(s, i + 1, cur, acc, TRUE)
  ELSE SplitFrom(s, i + 1, <<>>, Append(acc, cur), TRUE)

SplitWords(s) == SplitFrom(s, 1, <<>>, <<>>, FALSE)

\* the elements of a sequence at the positions in keep, in order
RECURSIVE KeepAt(_, _, _)
KeepAt(ws, keep, i) ==
  IF i > Len(ws) THEN <<>>
  ELSE (IF i \in keep THEN <<ws[i]>> ELSE <<>>) \o KeepAt(ws, keep, i + 1)

\* variant of FilterLong: words of exactly the minimum length are dropped
FilterLong_Strict(ws) == KeepAt(ws, {i \in 1..Len(ws) : Len(ws[i]) > MinKeywordLen}, 1)

\* .filter((word) => word.length >= 4)
FilterLong(ws) == KeepAt(ws, {i \in 1..Len(ws) : Len(ws[i]) >= MinKeywordLen}, 1)

\* .filter((word, index, arr) => arr.indexOf(word) === index)
Unique(ws) == KeepAt(ws, {i \in 1..Len(ws) : \A j \in 1..(i - 1) : ws[j] # ws[i]}, 1)

\* tokenizeMessage
TokenizeMessage(given, msg) ==
  IF ~given \/ Len(msg) = 0 THEN <<>>
  ELSE Unique(FilterLong(SplitWords(ToLowerCase(msg))))

\* ---- tokenizeMessage as a process ----------------------------------------
MaxMsgLen == 9

\* characters of the enumerated messages: a lower-case letter, an upper-case
\* letter and a separator
MsgAlphabet == {"a", "B", " "}

ExampleMessage == <<"W", "h", "a", "t", " ", "i", "s", " ", "t", "h", "e", " ", "s", "t", "a", "t", "u", "s", " ", "o", "f", " ", "G", "r", "a", "p", "h", "e", "n", "e", " ", "s", "y", "n", "t", "h", "e", "s", "i", "s", "?">>

\* longer messages: repeated words, other separators, digit and underscore
LongMessages ==
  {ExampleMessage,
   <<"a", "b", "a", "b", " ", "a", "a", "a", "a", " ", "A", "B", "A", "B", " ", "b", "b", "b", "b">>,
   <<"?", "?", "a", "_", "b", "7", ",", " ", "a", "a", "a", "a", "-", "-", "a", "a", "a", "a">>,
   <<" ", "B", "a", "a", "a", "?", "a", "a", "a", "b", " ", " ", "b", "a", "a", "a", " ">>}

TokMessages == (UNION {[1..n -> MsgAlphabet] : n \in 0..MaxMsgLen}) \cup LongMessages

\* ---- scoreChunk ----------------------------------------------------------
\* lowerContent has keyword at position i (the regular expression has flag i)
MatchesAt(lowerContent, keyword, i) ==
  /\ i + Len(keyword) - 1 <= Len(lowerContent)
  /\ \A k \in 1..Len(keyword) : ToLower(lowerContent[i + k - 1]) = ToLower(keyword[k])

\* variant of CountMatches: the scan resumes one character after a match
RECURSIVE CountMatches_Overlapping(_, _, _)
CountMatches_Overlapping(lowerContent, keyword, i) ==
  IF i + Len(keyword) - 1 > Len(lowerContent) THEN 0
  ELSE IF MatchesAt(lowerContent, keyword, i)
       THEN 1 + CountMatches_Overlapping(lowerContent, keyword, i + 1)
       ELSE CountMatches_Overlapping(lowerContent, keyword, i + 1)

\* lowerContent.match(new RegExp(keyword, "gi")).length, 0 for no match: a
\* global match scans from the left and resumes behind each match
RECURSIVE CountMatches(_, _, _)
CountMatches(lowerContent, keyword, i) ==
  IF i + Len(keyword) - 1 > Len(lowerContent) THEN 0
  ELSE IF MatchesAt(lowerContent, keyword, i)
       THEN 1 + CountMatches(lowerContent, keyword, i + Len(keyword))
       ELSE CountMatches(lowerContent, keyword, i + 1)

\* the for loop of scoreChunk over keywords k..
RECURSIVE ScoreFrom(_, _, _)
ScoreFrom(lowerContent, kws, k) ==
  IF k > Len(kws) THEN 0
  ELSE CountMatches(lowerContent, kws[k], 1) + ScoreFrom(lowerContent, kws, k + 1)

\* scoreChunk
ScoreChunk(chunkContent, kws) ==
  IF Len(chunkContent) = 0 \/ Len(kws) = 0 THEN 0
  ELSE ScoreFrom(ToLowerCase(chunkContent), kws, 1)

MaxContentLen == 6

ScoreContents == UNION {[1..n -> MsgAlphabet] : n \in 0..MaxContentLen}

\* keywords as tokenizeMessage produces them: lower-case words of length >= 4
KeywordPool == {<<"a", "a", "a", "a">>, <<"a", "b", "a", "b">>,
                <<"b", "a", "b", "a">>, <<"a", "a", "a", "b">>}

\* the keyword lists: distinct keywords, at most two
KeywordLists ==
  {<<>>} \cup {<<k>> : k \in KeywordPool}
         \cup {p \in KeywordPool \X KeywordPool : p[1] # p[2]}

\* ---- retrieveTopChunks ----------------------------------------------------
DefaultTopK == 12

retrieveVars == <<docIdsGiven, docIds, topK, stored, fetchCount, fetched, fetchError,
                  result>>

\* retrieveTopChunks is not running and the table is empty
RetrieveIdle ==
  /\ docIdsGiven = FALSE
  /\ docIds = <<>>
  /\ topK = DefaultTopK
  /\ stored = {}
  /\ fetchCount = 0
  /\ fetched = <<>>
  /\ fetchError = FALSE
  /\ result = <<>>

\* variant of NoDocIds: only the missing list is tested
NoDocIds_OnlyMissing(given, ids) == ~given

\* line 67: !docIds || docIds.length === 0
NoDocIds(given, ids) == ~given \/ Len(ids) = 0

\* line 71: !message || typeof message !== "string"
NoMessage(given, msg) == ~given \/ Len(msg) = 0

\* variant of NoKeywords: the test is left out
NoKeywords_Never(kws) == FALSE

\* line 79: keywords.length === 0
NoKeywords(kws) == Len(kws) = 0

\* .in("doc_id", docIds): the rows of the requested documents
MatchingRows(rows, ids) == {r \in rows : \E i \in 1..Len(ids) : ids[i] = r.doc_id}

\* .order("chunk_index", {ascending: true}): storage answers the rows in
\* ascending chunk_index; the order of rows with equal chunk_index is its own
RECURSIVE FetchOrders(_)
FetchOrders(rows) ==
  IF rows = {} THEN {<<>>}
  ELSE LET lowest == {r \in rows : \A q \in rows : r.chunk_index <= q.chunk_index}
       IN UNION {{<<r>> \o rest : rest \in FetchOrders(rows \ {r})} : r \in lowest}

\* lines 104-107: allChunks.map(chunk => ({...chunk, score: scoreChunk(...)}))
ScoreAll(rows, kws) ==
  [i \in 1..Len(rows) |->
     [chunk_pk |-> rows[i].chunk_pk, doc_id |-> rows[i].doc_id,
      chunk_index |-> rows[i].chunk_index, content |-> rows[i].content,
      metadata_json |-> rows[i].metadata_json,
      score |-> ScoreChunk(rows[i].content, kws)]]

\* variant of SortsBefore: the scores are compared the other way round
SortsBefore_Ascending(a, b) ==
  IF b.score # a.score THEN a.score - b.score < 0
  ELSE a.chunk_index - b.chunk_index < 0

\* lines 110-115: the comparator is negative, a is sorted before b
SortsBefore(a, b) ==
  IF b.score # a.score THEN b.score - a.score < 0
  ELSE a.chunk_index - b.chunk_index < 0

\* Array.prototype.sort is stable: an element is placed behind the elements
\* before it that the comparator does not put behind it
RECURSIVE InsertSorted(_, _, _)
InsertSorted(x, sorted, i) ==
  IF i > Len(sorted) THEN Append(sorted, x)
  ELSE IF SortsBefore(x, sorted[i])
       THEN SubSeq(sorted, 1, i - 1) \o <<x>> \o SubSeq(sorted, i, Len(sorted))
       ELSE InsertSorted(x, sorted, i + 1)

RECURSIVE SortFrom(_, _, _)
SortFrom(xs, i, sorted) ==
  IF i > Len(xs) THEN sorted
  ELSE SortFrom(xs, i + 1, InsertSorted(xs[i], sorted, 1))

SortScored(xs) == SortFrom(xs, 1, <<>>)

\* Array.prototype.slice(from, to) on 0-based positions, 0 <= from, 0 <= to
Slice(xs, from, to) == SubSeq(xs, Min(from, Len(xs)) + 1, Min(to, Len(xs)))

\* variant of TakeTop: one chunk too few is taken
TakeTop_OneShort(scoredChunks, k) == Slice(scoredChunks, 0, k - 1)

\* line 118: scoredChunks.slice(0, topK)
TakeTop(scoredChunks, k) == Slice(scoredChunks, 0, k)

\* lines 121-128: the fill with remaining chunks
FillUp(topChunks, scoredChunks, k) ==
  IF Len(topChunks) < k /\ Len(scoredChunks) > Len(topChunks)
  THEN LET rest      == Slice(scoredChunks, k, Len(scoredChunks))
           notTaken  == KeepAt(rest, {i \in 1..Len(rest) :
                               ~\E j \in 1..Len(topChunks) :
                                  topChunks[j].chunk_pk = rest[i].chunk_pk}, 1)
           remaining == Slice(notTaken, 0, k - Len(topChunks))
       IN topChunks \o remaining
  ELSE topChunks

\* lines 131-136: the returned format
FormatChunks(cs) ==
  [i \in 1..Len(cs) |->
     [doc_id |-> cs[i].doc_id, chunk_index |-> cs[i].chunk_index,
      content |-> cs[i].content, metadata_json |-> cs[i].metadata_json]]

\* variant of RetrieveResult: chunks without a keyword are left out
RetrieveResult_OnlyMatching(allChunks, kws, k) ==
  IF Len(allChunks) = 0 THEN <<>>
  ELSE LET scoredChunks == SortScored(ScoreAll(allChunks, kws))
           matching     == KeepAt(scoredChunks,
                                  {i \in 1..Len(scoredChunks) : scoredChunks[i].score > 0}, 1)
       IN FormatChunks(FillUp(TakeTop(matching, k), matching, k))

\* lines 99-136: the value returned for the rows storage answered
RetrieveResult(allChunks, kws, k) ==
  IF Len(allChunks) = 0 THEN <<>>
  ELSE LET scoredChunks == SortScored(ScoreAll(allChunks, kws))
       IN FormatChunks(FillUp(TakeTop(scoredChunks, k), scoredChunks, k))

\* -- the inputs of retrieveTopChunks --
MaxStoredChunks == 3
MaxTopK == 3

Docs == <<"d1", "d2">>

\* contents of stored chunks: without keyword, with one, with several
ContentPool == {<<"b", " ", "b">>, <<"A", "a", "a", "a">>, <<"a", "b", "a", "b", " ", "a", "a", "a", "a">>}

\* the rows of one document: chunk_index 0..n-1 as ingestion writes them
DocRows(d, cs) ==
  {[chunk_pk |-> (d - 1) * (MaxStoredChunks + 1) + i, doc_id |-> Docs[d],
    chunk_index |-> i - 1, content |-> cs[i], metadata_json |-> "pdf"] : i \in 1..Len(cs)}

DocContents == UNION {[1..n -> ContentPool] : n \in 0..MaxStoredChunks}

\* the tables: two documents with at most MaxStoredChunks chunks in all
Tables ==
  {DocRows(1, p[1]) \cup DocRows(2, p[2]) :
     p \in {q \in DocContents \X DocContents : Len(q[1]) + Len(q[2]) <= MaxStoredChunks}}

DocIdLists == {<<>>, <<"d1">>, <<"d2">>, <<"d1", "d2">>}

\* messages: empty, blank, without a word of four characters, one keyword,
\* two keywords
RetrMessages == {<<>>, <<" ", " ">>, <<"a", "B", " ", "?">>, <<"a", "a", "a", "a">>,
                 <<"a", "b", "a", "b", " ", "A", "A", "A", "A">>}

\* no upload request is being handled and storage is empty
UploadIdle ==
  /\ documents = {}
  /\ bucket = {}
  /\ insertedRows = 0
  /\ upc = "idle"
  /\ uploads = 0
  /\ upFile = "none"
  /\ upDocId = ""
  /\ upI = 0
  /\ upBatches = <<>>
  /\ upResponses = <<>>

\* no chat request is being handled
ChatIdle ==
  /\ cpc = "idle"
  /\ chatMsgGiven = FALSE
  /\ chatMessage = <<>>
  /\ chatAttsGiven = FALSE
  /\ chatAtts = <<>>
  /\ retrievalFailed = FALSE
  /\ webhookCalls = <<>>
  /\ chatResponses = <<>>

ServerIdle == UploadIdle /\ ChatIdle

RetrIdle ==
  /\ rpc = "idle"
  /\ msgGiven = FALSE
  /\ message = <<>>
  /\ keywords = <<>>
  /\ scoredContent = <<>>
  /\ score = 0
  /\ RetrieveIdle

\* ---- the state machine --------------------------------------------------
Init ==
  /\ textGiven \in BOOLEAN
  /\ text \in (IF textGiven THEN Texts ELSE {<<>>})
  /\ chunkSizeChars \in ChunkSizes
  /\ overlapChars \in Overlaps
  /\ pc = "entry"
  /\ startIndex = 0
  /\ chunks = <<>>
  /\ lastWindow = NoWindow
  /\ loopTick = 0
  /\ chunkRecords = <<>>
  /\ calls = 1
  /\ firstResult = <<>>
  /\ RetrIdle
  /\ ServerIdle

\* lines 15-17: return [] for an empty or missing text
ReturnEmpty ==
  /\ pc = "entry"
  /\ IsEmptyInput(textGiven, text)
  /\ pc' = "done"
  /\ chunks' = <<>>
  /\ UNCHANGED <<textGiven, text, chunkSizeChars, overlapChars, startIndex,
                 lastWindow, chunkRecords, calls, firstResult>>
  /\ UNCHANGED <<loopTick, retrVars, serverVars>>

\* lines 19-20: chunks = [], startIndex = 0, reach the while statement
EnterLoop ==
  /\ pc = "entry"
  /\ ~IsEmptyInput(textGiven, text)
  /\ chunks' = InitialChunks(chunks)
  /\ startIndex' = 0
  /\ pc' = "while"
  /\ UNCHANGED <<textGiven, text, chunkSizeChars, overlapChars, lastWindow,
                 chunkRecords, calls, firstResult>>
  /\ UNCHANGED <<loopTick, retrVars, serverVars>>

\* lines 22-42: one iteration of the loop
WhileBody ==
  /\ pc = "while"
  /\ startIndex < Len(text)
  /\ LET endIndex     == EndIndex(startIndex, chunkSizeChars, text)
         chunkContent == Substring(text, startIndex, endIndex)
         emit         == IsNonEmptyChunk(chunkContent)
         pushed       == IF emit
                         THEN Append(chunks, MakeChunk(chunkContent, startIndex, endIndex))
                         ELSE chunks
         next         == NextStartIndex(endIndex, overlapChars, pushed)
     IN /\ chunks' = pushed
        /\ startIndex' = next
        /\ lastWindow' = [used |-> TRUE, start |-> startIndex, end |-> endIndex,
                          emitted |-> emit, next |-> next]
  /\ loopTick' = 1 - loopTick
  /\ UNCHANGED <<textGiven, text, chunkSizeChars, overlapChars, pc, chunkRecords,
                 calls, firstResult>>
  /\ UNCHANGED <<retrVars, serverVars>>

\* lines 22, 44: the loop condition fails, return chunks
WhileExit ==
  /\ pc = "while"
  /\ ~(startIndex < Len(text))
  /\ pc' = "done"
  /\ UNCHANGED <<textGiven, text, chunkSizeChars, overlapChars, startIndex,
                 chunks, lastWindow, chunkRecords, calls, firstResult>>
  /\ UNCHANGED <<loopTick, retrVars, serverVars>>

\* the caller keeps the returned chunks and calls splitIntoChunks once more
\* with the same arguments; the locals of the new call are not yet initialised
CallAgain ==
  /\ pc = "done"
  /\ calls = 1
  /\ firstResult' = chunks
  /\ calls' = 2
  /\ pc' = "entry"
  /\ lastWindow' = NoWindow
  /\ UNCHANGED <<textGiven, text, chunkSizeChars, overlapChars, startIndex,
                 chunks, chunkRecords>>
  /\ UNCHANGED <<loopTick, retrVars, serverVars>>

\* handlePdfUpload: if (chunks.length > 0) chunkRecords = chunks.map(...)
MapChunkRecords ==
  /\ pc = "done"
  /\ Len(chunks) > 0
  /\ chunkRecords' = ChunkRecords(chunks)
  /\ pc' = "mapped"
  /\ UNCHANGED <<textGiven, text, chunkSizeChars, overlapChars, startIndex,
                 chunks, lastWindow, calls, firstResult>>
  /\ UNCHANGED <<loopTick, retrVars, serverVars>>

Next ==
  \/ ReturnEmpty
  \/ EnterLoop
  \/ WhileBody
  \/ WhileExit
  \/ CallAgain
  \/ MapChunkRecords

Spec == Init /\ [][Next]_vars

\* the chunker is not running
ChunkIdle ==
  /\ textGiven = FALSE
  /\ text = <<>>
  /\ chunkSizeChars = 1
  /\ overlapChars = 0
  /\ pc = "idle"
  /\ startIndex = 0
  /\ chunks = <<>>
  /\ lastWindow = NoWindow
  /\ loopTick = 0
  /\ chunkRecords = <<>>
  /\ calls = 1
  /\ firstResult = <<>>

\* ---- specification of tokenizeMessage ------------------------------------
InitTokenize ==
  /\ ChunkIdle
  /\ ServerIdle
  /\ rpc = "tok_call"
  /\ msgGiven \in BOOLEAN
  /\ message \in (IF msgGiven THEN TokMessages ELSE {<<>>})
  /\ keywords = <<>>
  /\ scoredContent = <<>>
  /\ score = 0
  /\ RetrieveIdle

\* tokenizeMessage(message) returns
Tokenize ==
  /\ rpc = "tok_call"
  /\ keywords' = TokenizeMessage(msgGiven, message)
  /\ rpc' = "tok_done"
  /\ UNCHANGED <<msgGiven, message, scoredContent, score>>
  /\ UNCHANGED retrieveVars
  /\ UNCHANGED <<chunkVars, serverVars>>

NextTokenize == Tokenize

SpecTokenize == InitTokenize /\ [][NextTokenize]_vars

\* ---- specification of scoreChunk ------------------------------------------
InitScore ==
  /\ ChunkIdle
  /\ ServerIdle
  /\ rpc = "score_call"
  /\ msgGiven = FALSE
  /\ message = <<>>
  /\ keywords \in KeywordLists
  /\ scoredContent \in ScoreContents
  /\ score = 0
  /\ RetrieveIdle

\* scoreChunk(chunkContent, keywords) returns
Score ==
  /\ rpc = "score_call"
  /\ score' = ScoreChunk(scoredContent, keywords)
  /\ rpc' = "score_done"
  /\ UNCHANGED <<msgGiven, message, keywords, scoredContent>>
  /\ UNCHANGED retrieveVars
  /\ UNCHANGED <<chunkVars, serverVars>>

NextScore == Score

SpecScore == InitScore /\ [][NextScore]_vars

\* ---- specification of retrieveTopChunks -----------------------------------
InitRetrieve ==
  /\ ChunkIdle
  /\ ServerIdle
  /\ rpc = "retr_call"
  /\ msgGiven \in BOOLEAN
  /\ message \in (IF msgGiven THEN RetrMessages ELSE {<<>>})
  /\ keywords = <<>>
  /\ scoredContent = <<>>
  /\ score = 0
  /\ docIdsGiven \in BOOLEAN
  /\ docIds \in (IF docIdsGiven THEN DocIdLists ELSE {<<>>})
  /\ topK \in (1..MaxTopK) \cup {DefaultTopK}
  /\ stored \in Tables
  /\ fetchCount = 0
  /\ fetched = <<>>
  /\ fetchError = FALSE
  /\ result = <<>>

\* lines 67-81: one of the early returns
RetrieveEarlyReturn ==
  /\ rpc = "retr_call"
  /\ \/ NoDocIds(docIdsGiven, docIds)
     \/ NoMessage(msgGiven, message)
     \/ NoKeywords(TokenizeMessage(msgGiven, message))
  /\ keywords' = IF NoDocIds(docIdsGiven, docIds) \/ NoMessage(msgGiven, message)
                 THEN keywords ELSE TokenizeMessage(msgGiven, message)
  /\ result' = <<>>
  /\ rpc' = "retr_returned"
  /\ UNCHANGED <<msgGiven, message, scoredContent, score, docIdsGiven, docIds,
                 topK, stored, fetchCount, fetched, fetchError>>
  /\ UNCHANGED <<chunkVars, serverVars>>

\* lines 67-92: no early return, the select request is sent and awaited
RetrieveFetch ==
  /\ rpc = "retr_call"
  /\ ~NoDocIds(docIdsGiven, docIds)
  /\ ~NoMessage(msgGiven, message)
  /\ ~NoKeywords(TokenizeMessage(msgGiven, message))
  /\ keywords' = TokenizeMessage(msgGiven, message)
  /\ fetchCount' = fetchCount + 1
  /\ rpc' = "retr_fetch"
  /\ UNCHANGED <<msgGiven, message, scoredContent, score, docIdsGiven, docIds,
                 topK, stored, fetched, fetchError, result>>
  /\ UNCHANGED <<chunkVars, serverVars>>

\* lines 85, 137-140: getSupabaseClient throws, the error is thrown on
RetrieveClientError ==
  /\ rpc = "retr_call"
  /\ ~NoDocIds(docIdsGiven, docIds)
  /\ ~NoMessage(msgGiven, message)
  /\ ~NoKeywords(TokenizeMessage(msgGiven, message))
  /\ keywords' = TokenizeMessage(msgGiven, message)
  /\ rpc' = "retr_threw"
  /\ UNCHANGED <<msgGiven, message, scoredContent, score, docIdsGiven, docIds,
                 topK, stored, fetchCount, fetched, fetchError, result>>
  /\ UNCHANGED <<chunkVars, serverVars>>

\* variant of AfterSelect: the select takes the rows it reads out of the table
AfterSelect_Consuming(table, ids) == table \ MatchingRows(table, ids)

\* lines 88-92: a select request leaves the table as it is
AfterSelect(table, ids) == table

\* variant of AfterFetchError: the error is swallowed, the call returns
AfterFetchError_Swallowed == "retr_returned"

\* variant of AfterFetchError: the call starts over and fetches again
AfterFetchError_Retry == "retr_call"

\* lines 94-97, 137-140: if (error) throw, the catch block throws it on
AfterFetchError == "retr_threw"

\* lines 88-136: storage answers the rows, the chunks are ranked and returned
FetchAnswered ==
  /\ rpc = "retr_fetch"
  /\ \E rows \in FetchOrders(MatchingRows(stored, docIds)) :
       /\ fetched' = rows
       /\ result' = RetrieveResult(rows, keywords, topK)
  /\ stored' = AfterSelect(stored, docIds)
  /\ rpc' = "retr_returned"
  /\ UNCHANGED <<msgGiven, message, keywords, scoredContent, score, docIdsGiven,
                 docIds, topK, fetchCount, fetchError>>
  /\ UNCHANGED <<chunkVars, serverVars>>

\* lines 94-97, 137-140: storage answers an error, it is thrown
FetchFailed ==
  /\ rpc = "retr_fetch"
  /\ fetchError' = TRUE
  /\ rpc' = AfterFetchError
  /\ UNCHANGED <<msgGiven, message, keywords, scoredContent, score, docIdsGiven,
                 docIds, topK, stored, fetchCount, fetched, result>>
  /\ UNCHANGED <<chunkVars, serverVars>>

NextRetrieve ==
  \/ RetrieveEarlyReturn
  \/ RetrieveFetch
  \/ RetrieveClientError
  \/ FetchAnswered
  \/ FetchFailed

SpecRetrieve == InitRetrieve /\ [][NextRetrieve]_vars

\* ---- the upload handler (handlePdfUpload) ---------------------------------
\* The handler calls splitIntoChunks(extractedText, 1200, 200) and inserts the
\* chunk records in batches of 200.  The model keeps the three numbers in
\* proportion and scales them down so that texts of a few characters fill
\* several windows and several batches.
UploadChunkSize == 4
UploadOverlap == 1
UploadBatchSize == 2

\* what extractTextFromPdf returns: "" (no text, or the extraction failed),
\* whitespace only, one window, trailing whitespace, three and four windows
UploadTexts ==
  {<<>>, <<" ">>, <<"a", "b">>, <<"a", "b", " ", " ">>,
   <<"a", "a", "a", "a", "a", "b", "b">>,
   <<"a", "a", "a", "a", "a", "b", "b", "b", "b", "b">>}

\* res.status(code).json(...): the fields of a response the properties read
Response(code, err, d, st, n) ==
  [code |-> code, error |-> err, doc_id |-> d, status |-> st, chunks_count |-> n]

\* lines 748-762: the document record inserted into table documents
DocumentRecord(d) == [doc_id |-> d, status |-> "uploaded", note |-> ""]

\* .update({...}).eq("doc_id", d): the update of the status of a document
UpdateStatus(docs, d, st, nt) ==
  {IF r.doc_id = d THEN [r EXCEPT !.status = st, !.note = nt] ELSE r : r \in docs}

\* lines 783-791: the update that notes the missing text in metadata_json
UpdateNote(docs, d, nt) ==
  {IF r.doc_id = d THEN [r EXCEPT !.note = nt] ELSE r : r \in docs}

\* variant of NextBatchStart: the next batch starts one record early
NextBatchStart_Overlapping(i) == i + UploadBatchSize - 1

\* line 819: i += batchSize
NextBatchStart(i) == i + UploadBatchSize

\* variant of Batch: the last record of a batch is left out
Batch_Short(records, i) == Slice(records, i, i + UploadBatchSize - 1)

\* line 820: chunkRecords.slice(i, i + batchSize)
Batch(records, i) == Slice(records, i, i + UploadBatchSize)

\* variant of InsertBatch: the rows of the batch replace the rows in the table
InsertBatch_Replacing(table, batch, d, n) ==
  {[chunk_pk |-> n + k, doc_id |-> d, chunk_index |-> batch[k].chunk_index,
    content |-> batch[k].content, metadata_json |-> "pdf"] : k \in 1..Len(batch)}

\* lines 804-821: insert(batch) adds one row for each record of the batch; the
\* table numbers its rows (chunk_pk)
InsertBatch(table, batch, d, n) ==
  table \cup
  {[chunk_pk |-> n + k, doc_id |-> d, chunk_index |-> batch[k].chunk_index,
    content |-> batch[k].content, metadata_json |-> "pdf"] : k \in 1..Len(batch)}

\* variant of StatusAfterBatchError: a failed batch leaves the status to the
\* final update
StatusAfterBatchError_Chunked == "chunked"

\* lines 826-835: the status written after a failed batch insert
StatusAfterBatchError == "failed"

\* the handler is between two awaits: while it runs (the chunker included) no
\* other handler runs
UploadRunning == upc = "up_chunking"

\* the variables of the upload handler that belong to one request
requestVars == <<upFile, upDocId, upI, upBatches, upResponses>>

uploadRest == <<documents, bucket, insertedRows, uploads, requestVars>>

\* metadata_json of a document record as far as the model keeps it
NoteOf(docs, d) == (CHOOSE r \in docs : r.doc_id = d).note

\* lines 700-703: a request without a file is answered 400.  (The mimetype test
\* of line 712 cannot fail: the file filter of lines 18-25 lets only
\* application/pdf reach the handler.)
UploadRejected ==
  /\ upc = "idle"
  /\ uploads < Len(Docs)
  /\ uploads' = uploads + 1
  /\ upFile' = "none"
  /\ upResponses' = <<Response(400, "No file provided", "", "", 0)>>
  /\ upc' = "up_responded"
  /\ UNCHANGED <<documents, bucket, insertedRows, upDocId, upI, upBatches>>
  /\ UNCHANGED <<chunkVars, retrVars, chatVars>>

\* lines 700-733: a PDF arrives, docId is generated and the file is sent to the
\* storage bucket
UploadStart ==
  /\ upc = "idle"
  /\ uploads < Len(Docs)
  /\ uploads' = uploads + 1
  /\ upFile' = "pdf"
  /\ upDocId' = Docs[uploads + 1]
  /\ upc' = "up_storage"
  /\ UNCHANGED <<documents, bucket, insertedRows, upI, upBatches, upResponses>>
  /\ UNCHANGED <<chunkVars, retrVars, chatVars>>

\* lines 727, 870-877: getSupabaseClient throws, the catch block answers 500
UploadClientError ==
  /\ upc = "idle"
  /\ uploads < Len(Docs)
  /\ uploads' = uploads + 1
  /\ upFile' = "pdf"
  /\ upDocId' = Docs[uploads + 1]
  /\ upResponses' = <<Response(500, "backend_error", "", "", 0)>>
  /\ upc' = "up_responded"
  /\ UNCHANGED <<documents, bucket, insertedRows, upI, upBatches>>
  /\ UNCHANGED <<chunkVars, retrVars, chatVars>>

\* lines 728-762: the file is stored, the document record is sent to the table
StorageUploaded ==
  /\ upc = "up_storage"
  /\ bucket' = bucket \cup {upDocId}
  /\ upc' = "up_document"
  /\ UNCHANGED <<documents, insertedRows, uploads, requestVars>>
  /\ UNCHANGED <<chunkVars, retrVars, chatVars>>

\* lines 735-742: the storage upload failed
StorageUploadFailed ==
  /\ upc = "up_storage"
  /\ upResponses' = Append(upResponses, Response(500, "storage_error", "", "", 0))
  /\ upc' = "up_responded"
  /\ UNCHANGED <<documents, bucket, insertedRows, uploads, upFile, upDocId, upI,
                 upBatches>>
  /\ UNCHANGED <<chunkVars, retrVars, chatVars>>

\* lines 762-778: the document record is inserted with status "uploaded", the
\* text extraction starts
DocumentInserted ==
  /\ upc = "up_document"
  /\ documents' = documents \cup {DocumentRecord(upDocId)}
  /\ upc' = "up_extract"
  /\ UNCHANGED <<bucket, insertedRows, uploads, requestVars>>
  /\ UNCHANGED <<chunkVars, retrVars, chatVars>>

\* lines 764-771: the insert of the document record failed
DocumentInsertFailed ==
  /\ upc = "up_document"
  /\ upResponses' = Append(upResponses, Response(500, "database_error", "", "", 0))
  /\ upc' = "up_responded"
  /\ UNCHANGED <<documents, bucket, insertedRows, uploads, upFile, upDocId, upI,
                 upBatches>>
  /\ UNCHANGED <<chunkVars, retrVars, chatVars>>

\* the call splitIntoChunks(extractedText, 1200, 200) of line 798 is entered
CallSplitIntoChunks(t) ==
  /\ textGiven' = TRUE
  /\ text' = t
  /\ chunkSizeChars' = UploadChunkSize
  /\ overlapChars' = UploadOverlap
  /\ pc' = "entry"
  /\ startIndex' = 0
  /\ lastWindow' = NoWindow
  /\ loopTick' = 0
  /\ chunkRecords' = <<>>
  /\ UNCHANGED <<chunks, calls, firstResult>>

\* lines 778-780, 793-798: a text was extracted, the chunker is called
ExtractedText ==
  /\ upc = "up_extract"
  /\ \E t \in UploadTexts \ {<<>>} : CallSplitIntoChunks(t)
  /\ upc' = "up_chunking"
  /\ UNCHANGED uploadRest
  /\ UNCHANGED <<retrVars, chatVars>>

\* lines 778-791: no text was extracted (extractTextFromPdf answers "" for a
\* failed extraction too), the note is sent to the document record
ExtractedNothing ==
  /\ upc = "up_extract"
  /\ upc' = "up_note"
  /\ UNCHANGED uploadRest
  /\ UNCHANGED <<chunkVars, retrVars, chatVars>>

\* lines 783-798: the update of the note is answered, with success or with an
\* error that is not looked at; the chunker is called with the empty text
NoteAnswered ==
  /\ upc = "up_note"
  /\ \E ok \in BOOLEAN :
       documents' = IF ok THEN UpdateNote(documents, upDocId, "failed_or_empty")
                    ELSE documents
  /\ CallSplitIntoChunks(<<>>)
  /\ upc' = "up_chunking"
  /\ UNCHANGED <<bucket, insertedRows, uploads, requestVars>>
  /\ UNCHANGED <<retrVars, chatVars>>

\* lines 798-821: the chunker returned chunks, they were mapped to records and
\* the first batch is sent to table document_chunks
FirstBatchSent ==
  /\ upc = "up_chunking"
  /\ pc = "mapped"
  /\ upI' = 0
  /\ upBatches' = <<Batch(chunkRecords, 0)>>
  /\ upc' = "up_batch"
  /\ UNCHANGED <<documents, bucket, insertedRows, uploads, upFile, upDocId,
                 upResponses>>
  /\ UNCHANGED <<chunkVars, retrVars, chatVars>>

\* lines 798-802, 851-854: the chunker returned no chunk, the status update is
\* sent
NoChunksToInsert ==
  /\ upc = "up_chunking"
  /\ pc = "done"
  /\ Len(chunks) = 0
  /\ upc' = "up_status"
  /\ UNCHANGED uploadRest
  /\ UNCHANGED <<chunkVars, retrVars, chatVars>>

\* lines 819-821, 851-854: a batch is inserted; the next batch is sent, or after
\* the last batch the status update
BatchInserted ==
  /\ upc = "up_batch"
  /\ stored' = InsertBatch(stored, Batch(chunkRecords, upI), upDocId, insertedRows)
  /\ insertedRows' = insertedRows + Len(Batch(chunkRecords, upI))
  /\ upI' = NextBatchStart(upI)
  /\ IF NextBatchStart(upI) < Len(chunkRecords)
     THEN /\ upBatches' = Append(upBatches, Batch(chunkRecords, NextBatchStart(upI)))
          /\ upc' = "up_batch"
     ELSE /\ upBatches' = upBatches
          /\ upc' = "up_status"
  /\ UNCHANGED <<documents, bucket, uploads, upFile, upDocId, upResponses>>
  /\ UNCHANGED chunkVars
  /\ UNCHANGED <<rpc, msgGiven, message, keywords, scoredContent, score,
                 docIdsGiven, docIds, topK, fetchCount, fetched, fetchError, result>>
  /\ UNCHANGED chatVars

\* lines 823-835: the insert of a batch failed, the update to status "failed"
\* is sent
BatchInsertFailed ==
  /\ upc = "up_batch"
  /\ upc' = "up_failing"
  /\ UNCHANGED uploadRest
  /\ UNCHANGED <<chunkVars, retrVars, chatVars>>

\* lines 826-843: the update to "failed" is answered, with success or with an
\* error that is not looked at; the request is answered 500
FailedStatusAnswered ==
  /\ upc = "up_failing"
  /\ \E ok \in BOOLEAN :
       documents' = IF ok
                    THEN UpdateStatus(documents, upDocId, StatusAfterBatchError, "error")
                    ELSE documents
  /\ upResponses' = Append(upResponses,
                           Response(500, "chunk_insert_error", upDocId, "", 0))
  /\ upc' = "up_responded"
  /\ UNCHANGED <<bucket, insertedRows, uploads, upFile, upDocId, upI, upBatches>>
  /\ UNCHANGED <<chunkVars, retrVars, chatVars>>

\* lines 856-869: the response of a finished upload, whether or not the status
\* update succeeded
ChunkedResponse(ok, d, n) == Response(200, "", d, "chunked", n)

\* lines 851-869: the update to "chunked" is answered, with success or with an
\* error that is only logged; the request is answered 200
ChunkedStatusAnswered ==
  /\ upc = "up_status"
  /\ \E ok \in BOOLEAN :
       /\ documents' = IF ok THEN UpdateStatus(documents, upDocId, "chunked",
                                               NoteOf(documents, upDocId))
                       ELSE documents
       /\ upResponses' = Append(upResponses, ChunkedResponse(ok, upDocId, Len(chunks)))
  /\ upc' = "up_responded"
  /\ UNCHANGED <<bucket, insertedRows, uploads, upFile, upDocId, upI, upBatches>>
  /\ UNCHANGED <<chunkVars, retrVars, chatVars>>

\* the locals of the finished call of splitIntoChunks are gone
ChunkerReleased ==
  /\ textGiven' = FALSE
  /\ text' = <<>>
  /\ chunkSizeChars' = 1
  /\ overlapChars' = 0
  /\ pc' = "idle"
  /\ startIndex' = 0
  /\ chunks' = <<>>
  /\ lastWindow' = NoWindow
  /\ loopTick' = 0
  /\ chunkRecords' = <<>>
  /\ UNCHANGED <<calls, firstResult>>

\* the request is over; the handler is free for the next request
UploadFinished ==
  /\ upc = "up_responded"
  /\ uploads < Len(Docs)
  /\ upc' = "idle"
  /\ upFile' = "none"
  /\ upDocId' = ""
  /\ upI' = 0
  /\ upBatches' = <<>>
  /\ upResponses' = <<>>
  /\ ChunkerReleased
  /\ UNCHANGED <<documents, bucket, insertedRows, uploads>>
  /\ UNCHANGED <<retrVars, chatVars>>

\* the steps of splitIntoChunks and of the mapping inside the handler
UploadChunking ==
  /\ upc = "up_chunking"
  /\ \/ ReturnEmpty
     \/ EnterLoop
     \/ WhileBody
     \/ WhileExit
     \/ MapChunkRecords

\* the steps the handler takes once a request has arrived
UploadStep ==
  \/ StorageUploaded
  \/ StorageUploadFailed
  \/ DocumentInserted
  \/ DocumentInsertFailed
  \/ ExtractedText
  \/ ExtractedNothing
  \/ NoteAnswered
  \/ UploadChunking
  \/ FirstBatchSent
  \/ NoChunksToInsert
  \/ BatchInserted
  \/ BatchInsertFailed
  \/ FailedStatusAnswered
  \/ ChunkedStatusAnswered

InitUpload ==
  /\ ChunkIdle
  /\ RetrIdle
  /\ ServerIdle

NextUpload ==
  \/ UploadRejected
  \/ UploadStart
  \/ UploadClientError
  \/ UploadStep
  \/ UploadFinished

\* Every awaited call is answered and the handler goes on once it is (the
\* event loop runs the continuation); the loop of the chunker keeps running.
SpecUpload == InitUpload /\ [][NextUpload]_vars /\ WF_vars(UploadStep)

\* ---- the chat handler (POST /api/chat) -------------------------------------
\* line 618: topK: 12
ChatTopK == 12

\* req.body.message when it is a string: empty, without a keyword, one keyword
ChatMessages == {<<>>, <<"a", "B", " ", "?">>, <<"a", "a", "a", "a">>}

\* an element of req.body.attachments; doc_id "" stands for a missing doc_id
Attachment(type, d) == [type |-> type, doc_id |-> d]

\* req.body.attachments when it is an array: empty, without a PDF, a PDF
\* without doc_id, one PDF, two PDFs among other attachments
ChatAttachments ==
  {<<>>,
   <<Attachment("image", "d1")>>,
   <<Attachment("pdf", "")>>,
   <<Attachment("pdf", "d1")>>,
   <<Attachment("pdf", "d2"), Attachment("image", ""), Attachment("pdf", "d1")>>}

\* line 592: !message || typeof message !== "string"
InvalidMessage(given, m) == ~given \/ Len(m) = 0

\* line 607: attachments.filter(att => att.type === "pdf" && att.doc_id)
PdfAttachments(atts) ==
  KeepAt(atts, {i \in 1..Len(atts) : atts[i].type = "pdf" /\ atts[i].doc_id # ""}, 1)

\* line 608: pdfAttachments.map(att => att.doc_id)
DocIdsOf(atts) == [i \in 1..Len(atts) |-> atts[i].doc_id]

\* lines 606-610: the request names documents whose chunks are to be retrieved
WantsChunks(given, atts) == given /\ Len(DocIdsOf(PdfAttachments(atts))) > 0

\* lines 600-635, 652: n8nPayload; a field that is not set is marked absent
Payload(m, hasAtts, atts, hasChunks, cs) ==
  [user_message |-> m, has_attachments |-> hasAtts, attachments |-> atts,
   has_retrieved_chunks |-> hasChunks, retrieved_chunks |-> cs]

\* variant of PayloadAfterError: the payload goes without retrieved_chunks
PayloadAfterError_NoChunksField(m, atts) == Payload(m, TRUE, atts, FALSE, <<>>)

\* lines 626-631: the payload after retrieveTopChunks threw
PayloadAfterError(m, atts) == Payload(m, TRUE, atts, TRUE, <<>>)

\* lines 623-625: the payload after retrieveTopChunks returned
PayloadWithChunks(m, atts, cs) == Payload(m, TRUE, atts, TRUE, cs)

\* lines 600-603, 632-635: the payload of a request without PDF documents
PayloadWithoutChunks(m, given, atts) ==
  Payload(m, given, IF given THEN atts ELSE <<>>, FALSE, <<>>)

\* the fields of a chat response the properties read
ChatResponse(code, err) == [code |-> code, error |-> err]

\* retrieveTopChunks is not running; its locals are gone
RetrievalReleased ==
  /\ rpc' = "idle"
  /\ msgGiven' = FALSE
  /\ message' = <<>>
  /\ keywords' = <<>>
  /\ docIdsGiven' = FALSE
  /\ docIds' = <<>>
  /\ topK' = DefaultTopK
  /\ fetchCount' = 0
  /\ fetched' = <<>>
  /\ fetchError' = FALSE
  /\ result' = <<>>
  /\ UNCHANGED <<scoredContent, score, stored>>

\* lines 589-597: a request without a usable message is answered 400
ChatRejected ==
  /\ cpc = "idle"
  /\ ~UploadRunning
  /\ \E given \in BOOLEAN :
       \E m \in (IF given THEN ChatMessages ELSE {<<>>}) :
         /\ InvalidMessage(given, m)
         /\ chatMsgGiven' = given
         /\ chatMessage' = m
  /\ chatResponses' = <<ChatResponse(400, "Missing or invalid message field")>>
  /\ cpc' = "chat_responded"
  /\ UNCHANGED <<chatAttsGiven, chatAtts, retrievalFailed, webhookCalls>>
  /\ UNCHANGED <<chunkVars, retrVars, uploadVars>>

\* lines 589-619: the request names PDF documents, retrieveTopChunks is called
ChatRetrieve ==
  /\ cpc = "idle"
  /\ ~UploadRunning
  /\ \E m \in ChatMessages, atts \in ChatAttachments :
       /\ ~InvalidMessage(TRUE, m)
       /\ WantsChunks(TRUE, atts)
       /\ chatMsgGiven' = TRUE
       /\ chatMessage' = m
       /\ chatAttsGiven' = TRUE
       /\ chatAtts' = atts
       /\ msgGiven' = TRUE
       /\ message' = m
       /\ docIdsGiven' = TRUE
       /\ docIds' = DocIdsOf(PdfAttachments(atts))
  /\ topK' = ChatTopK
  /\ rpc' = "retr_call"
  /\ cpc' = "chat_retrieving"
  /\ UNCHANGED <<keywords, scoredContent, score, stored, fetchCount, fetched,
                 fetchError, result>>
  /\ UNCHANGED <<retrievalFailed, webhookCalls, chatResponses>>
  /\ UNCHANGED <<chunkVars, uploadVars>>

\* lines 589-610, 632-653: no PDF document is named, the payload is posted to
\* the webhook
ChatForward ==
  /\ cpc = "idle"
  /\ ~UploadRunning
  /\ \E m \in ChatMessages, given \in BOOLEAN :
       \E atts \in (IF given THEN ChatAttachments ELSE {<<>>}) :
         /\ ~InvalidMessage(TRUE, m)
         /\ ~WantsChunks(given, atts)
         /\ chatMsgGiven' = TRUE
         /\ chatMessage' = m
         /\ chatAttsGiven' = given
         /\ chatAtts' = atts
         /\ webhookCalls' = <<PayloadWithoutChunks(m, given, atts)>>
  /\ cpc' = "chat_webhook"
  /\ UNCHANGED <<retrievalFailed, chatResponses>>
  /\ UNCHANGED <<chunkVars, retrVars, uploadVars>>

\* the steps of retrieveTopChunks inside the handler
ChatRetrieval ==
  /\ cpc = "chat_retrieving"
  /\ ~UploadRunning
  /\ \/ RetrieveEarlyReturn
     \/ RetrieveFetch
     \/ RetrieveClientError
     \/ FetchAnswered
     \/ FetchFailed

\* lines 615-625, 646-653: retrieveTopChunks returned, the payload is posted
ChatRetrieved ==
  /\ cpc = "chat_retrieving"
  /\ ~UploadRunning
  /\ rpc = "retr_returned"
  /\ webhookCalls' = Append(webhookCalls,
                            PayloadWithChunks(chatMessage, chatAtts, result))
  /\ cpc' = "chat_webhook"
  /\ UNCHANGED retrVars
  /\ UNCHANGED <<chatMsgGiven, chatMessage, chatAttsGiven, chatAtts,
                 retrievalFailed, chatResponses>>
  /\ UNCHANGED <<chunkVars, uploadVars>>

\* lines 626-631, 646-653: retrieveTopChunks threw, the payload is posted all
\* the same
ChatRetrievalFailed ==
  /\ cpc = "chat_retrieving"
  /\ ~UploadRunning
  /\ rpc = "retr_threw"
  /\ retrievalFailed' = TRUE
  /\ webhookCalls' = Append(webhookCalls, PayloadAfterError(chatMessage, chatAtts))
  /\ cpc' = "chat_webhook"
  /\ UNCHANGED retrVars
  /\ UNCHANGED <<chatMsgGiven, chatMessage, chatAttsGiven, chatAtts, chatResponses>>
  /\ UNCHANGED <<chunkVars, uploadVars>>

\* lines 646-678: the webhook answers (200), answers with an error status, or
\* the call throws; the request is answered
WebhookAnswered ==
  /\ cpc = "chat_webhook"
  /\ ~UploadRunning
  /\ \E r \in {ChatResponse(200, ""), ChatResponse(502, "n8n_error"),
               ChatResponse(500, "backend_error")} :
       chatResponses' = Append(chatResponses, r)
  /\ cpc' = "chat_responded"
  /\ UNCHANGED <<chatMsgGiven, chatMessage, chatAttsGiven, chatAtts,
                 retrievalFailed, webhookCalls>>
  /\ UNCHANGED <<chunkVars, retrVars, uploadVars>>

\* the request is over; the handler is free for the next request
ChatFinished ==
  /\ cpc = "chat_responded"
  /\ ~UploadRunning
  /\ cpc' = "idle"
  /\ chatMsgGiven' = FALSE
  /\ chatMessage' = <<>>
  /\ chatAttsGiven' = FALSE
  /\ chatAtts' = <<>>
  /\ retrievalFailed' = FALSE
  /\ webhookCalls' = <<>>
  /\ chatResponses' = <<>>
  /\ RetrievalReleased
  /\ UNCHANGED <<chunkVars, uploadVars>>

\* ---- specification of the server: uploads and chat requests ----------------
NextServer ==
  \/ NextUpload
  \/ ChatRejected
  \/ ChatRetrieve
  \/ ChatForward
  \/ ChatRetrieval
  \/ ChatRetrieved
  \/ ChatRetrievalFailed
  \/ WebhookAnswered
  \/ ChatFinished

SpecServer == InitUpload /\ [][NextServer]_vars

\* ---- vocabulary of the properties ---------------------------------------
\* what exists outside a call of splitIntoChunks: its arguments and the caller
callerState == <<textGiven, text, chunkSizeChars, overlapChars, chunkRecords,
                 calls, firstResult>>

ValidConfig == chunkSizeChars > 0 /\ 0 <= overlapChars /\ overlapChars < chunkSizeChars

Returned == pc \in {"done", "mapped"}

HasNonSpace(s) == \E i \in 1..Len(s) : ~IsSpace(s[i])

\* the 0-based offsets of the text that lie in the span of some chunk
CoveredOffsets(cs) ==
  {o \in 0..(Len(text) - 1) : \E i \in 1..Len(cs) : cs[i].char_start <= o /\ o < cs[i].char_end}

\* concatenation of the chunk contents with the overlapping parts removed:
\* of each chunk only the part beyond the offset already written is appended
RECURSIVE Rebuild(_, _, _, _)
Rebuild(cs, i, pos, acc) ==
  IF i > Len(cs) THEN acc
  ELSE LET c    == cs[i]
           from == Max(pos, c.char_start)
           part == IF from >= c.char_end THEN <<>>
                   ELSE SubSeq(c.content, from - c.char_start + 1, Len(c.content))
       IN Rebuild(cs, i + 1, Max(pos, c.char_end), acc \o part)

Reconstruct(cs) == Rebuild(cs, 1, 0, <<>>)

\* the text with the characters at the offsets outside keep removed
RECURSIVE Restrict(_, _, _)
Restrict(t, keep, i) ==
  IF i > Len(t) THEN <<>>
  ELSE (IF (i - 1) \in keep THEN <<t[i]>> ELSE <<>>) \o Restrict(t, keep, i + 1)

\* ---- C1 -----------------------------------------------------------------
\* C1 (as claimed): with chunk_size > 0 and 0 <= overlap < chunk_size every
\* loop iteration strictly increases the start offset, so the call terminates.
C1_StartStrictlyIncreases ==
  [][(ValidConfig /\ pc = "while" /\ startIndex < Len(text)) => startIndex' > startIndex]_vars

\* ---- C2 -----------------------------------------------------------------
\* C2 (as claimed): for a non-empty text and a valid configuration the spans
\* of the returned chunks cover every offset of the text and their
\* concatenation with overlap removal is the text.
C2_SpansReconstructText ==
  (Returned /\ ValidConfig /\ Len(text) > 0) =>
    /\ CoveredOffsets(chunks) = 0..(Len(text) - 1)
    /\ Reconstruct(chunks) = text

\* C2 (amended): for a non-empty text and a valid configuration, every offset
\* outside the spans of the returned chunks holds whitespace, and the
\* concatenation with overlap removal is the text without those offsets.
C2_SpansReconstructTextUpToWhitespace ==
  (Returned /\ ValidConfig /\ Len(text) > 0) =>
    /\ \A o \in (0..(Len(text) - 1)) \ CoveredOffsets(chunks) : IsSpace(text[o + 1])
    /\ Reconstruct(chunks) = Restrict(text, CoveredOffsets(chunks), 1)

C2_Witness ==
  /\ Returned /\ ValidConfig /\ overlapChars > 0
  /\ Len(chunks) >= 2
  /\ CoveredOffsets(chunks) # 0..(Len(text) - 1)

\* ---- C3 -----------------------------------------------------------------
\* C3: char_start strictly increases across consecutive chunks, at every
\* point of the call and hence whenever it returns, and the records built at
\* ingestion carry the indices 0..n-1 in output order.
C3_OrderedAndIndexed ==
  /\ \A i \in 1..(Len(chunks) - 1) : chunks[i].char_start < chunks[i + 1].char_start
  /\ pc = "mapped" =>
       /\ Len(chunkRecords) = Len(chunks)
       /\ \A i \in 1..Len(chunkRecords) :
            /\ chunkRecords[i].chunk_index = i - 1
            /\ chunkRecords[i].char_start = chunks[i].char_start
            /\ chunkRecords[i].content = chunks[i].content

C3_Witness ==
  /\ pc = "mapped"
  /\ Len(chunkRecords) >= 3
  /\ overlapChars >= chunkSizeChars

C5_EmittedIffNonBlank ==
  /\ \A i \in 1..Len(chunks) : HasNonSpace(chunks[i].content)
  /\ lastWindow.used =>
       ((\E i \in 1..Len(chunks) :
            chunks[i].char_start = lastWindow.start /\ chunks[i].char_end = lastWindow.end)
        <=> (\E o \in lastWindow.start..(lastWindow.end - 1) : ~IsSpace(text[o + 1])))

C5_Witness ==
  /\ Returned
  /\ Len(chunks) >= 1
  /\ lastWindow.used /\ ~lastWindow.emitted
  /\ lastWindow.end > lastWindow.start

\* ---- C6 -----------------------------------------------------------------
\* C6 (as claimed): with 0 <= overlap < chunk_size, char_end of a returned
\* chunk minus char_start of the next returned chunk equals overlap.
C6_ConsecutiveOverlapExact ==
  (Returned /\ ValidConfig) =>
    \A i \in 1..(Len(chunks) - 1) :
      chunks[i].char_end - chunks[i + 1].char_start = overlapChars

\* C6 (amended): with 0 <= overlap < chunk_size, char_end of a returned chunk
\* minus char_start of the next returned chunk equals overlap unless the
\* window starting at that char_end minus overlap is whitespace-only; that
\* window is skipped and the difference is then smaller than overlap.
C6_ConsecutiveOverlapUnlessSkipped ==
  (Returned /\ ValidConfig) =>
    \A i \in 1..(Len(chunks) - 1) :
      LET s     == chunks[i].char_end - overlapChars
          e     == Min(s + chunkSizeChars, Len(text))
          blank == \A o \in s..(e - 1) : IsSpace(text[o + 1])
          diff  == chunks[i].char_end - chunks[i + 1].char_start
      IN IF blank THEN diff < overlapChars ELSE diff = overlapChars

C6_Witness ==
  /\ Returned /\ ValidConfig /\ overlapChars > 0
  /\ \E i \in 1..(Len(chunks) - 1) :
       chunks[i].char_end - chunks[i + 1].char_start < overlapChars
  /\ \E i \in 1..(Len(chunks) - 1) :
       chunks[i].char_end - chunks[i + 1].char_start = overlapChars

\* ---- C7 -----------------------------------------------------------------
\* C7 (as claimed): for a valid configuration and a text without whitespace
\* the returned chunks start at 0, step, 2*step, ... (step = chunk_size -
\* overlap) and there are ceil(len(text) / step) of them.
C7_WindowStartsAreMultiples ==
  (Returned /\ ValidConfig /\ textGiven /\ ~(\E i \in 1..Len(text) : IsSpace(text[i]))) =>
    LET step == chunkSizeChars - overlapChars
    IN /\ Len(chunks) = (Len(text) + step - 1) \div step
       /\ \A i \in 1..Len(chunks) : chunks[i].char_start = (i - 1) * step

\* ---- C8 -----------------------------------------------------------------
\* C8 (as claimed): a text that is non-empty after trimming and no longer
\* than chunk_size - overlap yields exactly one chunk, the whole text.
C8_ShortTextSingleChunk ==
  (Returned /\ ValidConfig /\ HasNonSpace(text)
     /\ Len(text) <= chunkSizeChars - overlapChars) =>
    chunks = <<[content |-> text, char_start |-> 0, char_end |-> Len(text)]>>

\* ---- C9 -----------------------------------------------------------------
\* C9: for an empty or missing text the call returns the empty sequence for
\* every chunk_size and overlap, and never reaches the loop.
C9_EmptyTextReturnsEmpty ==
  (~textGiven \/ Len(text) = 0) =>
    /\ pc \in {"entry", "done"}
    /\ chunks = <<>>
    /\ ~lastWindow.used

C9_Witness ==
  /\ pc = "done"
  /\ textGiven /\ Len(text) = 0
  /\ ~ValidConfig

\* ---- C10 ----------------------------------------------------------------
\* C10 (as claimed): with overlap >= chunk_size > 0 every loop iteration,
\* whether or not its window was emitted, sets the next start to the end of
\* the window just processed.
C10_OversizedOverlapForcesWindowEnd ==
  [][(chunkSizeChars > 0 /\ overlapChars >= chunkSizeChars
        /\ pc = "while" /\ startIndex < Len(text))
      => startIndex' = Min(startIndex + chunkSizeChars, Len(text))]_vars

\* ---- C11 ----------------------------------------------------------------
\* C11 (as claimed): a call with chunk_size <= 0 or overlap < 0 ends at once
\* with a configuration error: it never runs the loop and never returns a
\* chunk list (stated here for the calls with a non-empty text).
C11_InvalidConfigRejected ==
  (textGiven /\ Len(text) > 0 /\ (chunkSizeChars <= 0 \/ overlapChars < 0)) =>
    (pc # "while" /\ ~Returned)

\* ---- C12 ----------------------------------------------------------------
\* C12: a second call with the same (text, chunk_size, overlap) returns the
\* chunk sequence the first call returned, and no step of a call changes
\* anything but the call's own position, start index, chunk list and window.
C12_PureFunction ==
  /\ []((calls = 2 /\ pc = "done") => chunks = firstResult)
  /\ [][(pc \in {"entry", "while"}) => UNCHANGED callerState]_vars

C12_Witness ==
  /\ calls = 2 /\ pc = "done"
  /\ Len(chunks) >= 2
  /\ firstResult = chunks

\* ---- C15 ----------------------------------------------------------------
\* the maximal runs of word characters of the lower-cased message that are at
\* least four characters long, as pairs <<first, last>> of positions
LongRuns(low) ==
  {r \in (1..Len(low)) \X (1..Len(low)) :
     /\ r[2] - r[1] + 1 >= 4
     /\ \A i \in r[1]..r[2] : IsWordChar(low[i])
     /\ (r[1] = 1 \/ ~IsWordChar(low[r[1] - 1]))
     /\ (r[2] = Len(low) \/ ~IsWordChar(low[r[2] + 1]))}

RunWord(low, r) == [k \in 1..(r[2] - r[1] + 1) |-> low[r[1] + k - 1]]

FirstRunOf(low, w) ==
  CHOOSE i \in 1..Len(low) :
    /\ \E r \in LongRuns(low) : r[1] = i /\ RunWord(low, r) = w
    /\ \A r \in LongRuns(low) : RunWord(low, r) = w => i <= r[1]

\* C15: tokenizeMessage returns exactly the lower-cased words of length >= 4
\* between non-word characters, each once, in order of first occurrence; the
\* example message yields what, status, graphene, synthesis.
C15_TokensAreLongWordsOnce ==
  (rpc = "tok_done" /\ msgGiven) =>
    LET low == [i \in 1..Len(message) |-> ToLower(message[i])]
    IN /\ \A k \in 1..Len(keywords) : \E r \in LongRuns(low) : RunWord(low, r) = keywords[k]
       /\ \A r \in LongRuns(low) : \E k \in 1..Len(keywords) : keywords[k] = RunWord(low, r)
       /\ \A k, l \in 1..Len(keywords) : k # l => keywords[k] # keywords[l]
       /\ \A k, l \in 1..Len(keywords) :
            k < l => FirstRunOf(low, keywords[k]) < FirstRunOf(low, keywords[l])
       /\ message = ExampleMessage =>
            keywords = <<<<"w", "h", "a", "t">>, <<"s", "t", "a", "t", "u", "s">>,
                         <<"g", "r", "a", "p", "h", "e", "n", "e">>,
                         <<"s", "y", "n", "t", "h", "e", "s", "i", "s">>>>

C15_Witness ==
  /\ rpc = "tok_done" /\ msgGiven
  /\ Len(keywords) >= 2
  /\ Cardinality(LongRuns(ToLowerCase(message))) > Len(keywords)
  /\ \E i \in 1..Len(message) : ToLower(message[i]) # message[i]

\* ---- C16 ----------------------------------------------------------------
\* the positions of the content at which the keyword occurs, case ignored
Occurrences(c, kw) ==
  {i \in 1..Len(c) :
     /\ i + Len(kw) - 1 <= Len(c)
     /\ \A k \in 1..Len(kw) : ToLower(c[i + k - 1]) = ToLower(kw[k])}

\* the occurrences counted by a scan from the left that skips every
\* occurrence overlapping one already counted
CountedOccurrences(c, kw) ==
  CHOOSE P \in SUBSET Occurrences(c, kw) :
    /\ \A p, q \in P : p < q => p + Len(kw) <= q
    /\ \A o \in Occurrences(c, kw) \ P : \E p \in P : p < o /\ o < p + Len(kw)

RECURSIVE SumOver(_, _)
SumOver(ns, k) == IF k > Len(ns) THEN 0 ELSE ns[k] + SumOver(ns, k + 1)

\* C16 (as claimed): the score is the sum over the keywords of the number of
\* positions at which the keyword occurs in the content, case ignored,
\* overlapping occurrences each counted.
C16_ScoreCountsEveryOccurrence ==
  rpc = "score_done" =>
    score = SumOver([k \in 1..Len(keywords) |->
                       Cardinality(Occurrences(scoredContent, keywords[k]))], 1)

\* C16 (amended): the score is the sum over the keywords of the number of
\* occurrences found by a scan from the left that skips an occurrence
\* overlapping one of the same keyword already counted; a content without
\* any keyword scores 0.
C16_ScoreCountsNonOverlappingOccurrences ==
  rpc = "score_done" =>
    /\ score = SumOver([k \in 1..Len(keywords) |->
                          Cardinality(CountedOccurrences(scoredContent, keywords[k]))], 1)
    /\ (\A k \in 1..Len(keywords) : Occurrences(scoredContent, keywords[k]) = {}) => score = 0

C16_Witness ==
  /\ rpc = "score_done"
  /\ Len(keywords) = 2
  /\ \A k \in 1..2 : Occurrences(scoredContent, keywords[k]) # {}
  /\ score < SumOver([k \in 1..Len(keywords) |->
                        Cardinality(Occurrences(scoredContent, keywords[k]))], 1)
  /\ \E i \in 1..Len(scoredContent) : ToLower(scoredContent[i]) # scoredContent[i]

\* ---- C13 ----------------------------------------------------------------
\* C13: with an empty or missing document id list retrieveTopChunks returns
\* the empty sequence, for every message and top_k, and sends no request to
\* storage.
C13_NoDocIdsReturnsEmpty ==
  (rpc \in {"retr_call", "retr_fetch", "retr_returned", "retr_threw"}
     /\ (~docIdsGiven \/ Len(docIds) = 0)) =>
    /\ rpc \in {"retr_call", "retr_returned"}
    /\ result = <<>>
    /\ fetchCount = 0

C13_Witness ==
  /\ rpc = "retr_returned"
  /\ docIdsGiven /\ Len(docIds) = 0
  /\ msgGiven /\ LongRuns(ToLowerCase(message)) # {}
  /\ stored # {}

\* ---- C14 ----------------------------------------------------------------
\* C14: when the message is missing, blank or without a word of at least four
\* characters, retrieveTopChunks returns the empty sequence and sends no
\* request to storage, whatever chunks the requested documents have.
C14_NoKeywordReturnsEmpty ==
  (rpc \in {"retr_call", "retr_fetch", "retr_returned", "retr_threw"}
     /\ (~msgGiven \/ LongRuns([i \in 1..Len(message) |-> ToLower(message[i])]) = {})) =>
    /\ rpc \in {"retr_call", "retr_returned"}
    /\ result = <<>>
    /\ fetchCount = 0

C14_Witness ==
  /\ rpc = "retr_returned"
  /\ msgGiven /\ Len(message) > 0 /\ HasNonSpace(message)
  /\ LongRuns(ToLowerCase(message)) = {}
  /\ docIdsGiven /\ MatchingRows(stored, docIds) # {}

\* ---- C17 ----------------------------------------------------------------
\* the score of a returned chunk for the keywords of the call
ResultScore(i) == ScoreChunk(result[i].content, keywords)

\* C17: the returned sequence is ordered by score descending, chunks of equal
\* score by ascending chunk index; a chunk containing a keyword precedes
\* every chunk containing none.
C17_RankedByScoreThenIndex ==
  rpc = "retr_returned" =>
    \A i, j \in 1..Len(result) :
      i < j =>
        /\ ResultScore(i) >= ResultScore(j)
        /\ ResultScore(i) = ResultScore(j) => result[i].chunk_index <= result[j].chunk_index
        /\ ~(ResultScore(i) = 0 /\ ResultScore(j) > 0)

C17_Witness ==
  /\ rpc = "retr_returned"
  /\ Len(result) >= 3
  /\ \E i, j \in 1..Len(result) : ResultScore(i) > ResultScore(j) /\ ResultScore(j) = 0
  /\ \E i, j \in 1..Len(result) :
       i < j /\ ResultScore(i) = ResultScore(j) /\ result[i].chunk_index < result[j].chunk_index
  /\ \E i, j \in 1..Len(fetched) :
       i < j /\ ScoreChunk(fetched[i].content, keywords) < ScoreChunk(fetched[j].content, keywords)

\* ---- C18 ----------------------------------------------------------------
\* C18: with at least one keyword and a successful fetch of N chunks the call
\* returns exactly min(top_k, N) chunks, also when every score is 0.
C18_ReturnsMinTopKAvailable ==
  (rpc = "retr_returned" /\ fetchCount > 0) =>
    Len(result) = Min(topK, Cardinality(MatchingRows(stored, docIds)))

C18_Witness ==
  /\ rpc = "retr_returned" /\ fetchCount > 0
  /\ Cardinality(MatchingRows(stored, docIds)) > topK
  /\ Len(result) = topK
  /\ \A i \in 1..Len(fetched) : ScoreChunk(fetched[i].content, keywords) = 0

\* ---- C19 ----------------------------------------------------------------
\* C19: the returned sequence is the first top_k entries of the chunks
\* sorted by (score descending, chunk index ascending): the fill of lines
\* 121-128 adds nothing.
C19_FillNeverChangesResult ==
  (rpc = "retr_returned" /\ fetchCount > 0) =>
    LET sorted == SortScored(ScoreAll(fetched, keywords))
    IN result = FormatChunks(SubSeq(sorted, 1, Min(topK, Len(sorted))))

C19_Witness ==
  /\ rpc = "retr_returned" /\ fetchCount > 0
  /\ Len(fetched) > topK
  /\ Len(result) = topK
  /\ \E i \in 1..Len(fetched) : ScoreChunk(fetched[i].content, keywords) > 0

\* ---- C20 ----------------------------------------------------------------
\* C20 (as claimed): for fixed stored chunks, message and top_k the returned
\* sequence is the same for every order in which storage may answer the rows
\* of equal chunk index.
C20_ResultIndependentOfFetchOrder ==
  (rpc = "retr_returned" /\ fetchCount > 0) =>
    \A rows \in FetchOrders(MatchingRows(stored, docIds)) :
      RetrieveResult(rows, keywords, topK) = result

\* ---- C21 ------------------------------------------------------------------
\* C21: when the storage fetch of retrieveTopChunks fails the call ends by
\* throwing to its caller and returns no chunk list, whereas a fetch that
\* succeeds with zero rows returns the empty list: the two outcomes differ.
C21_FetchFailureThrows ==
  /\ fetchError => rpc = "retr_threw"
  /\ (rpc = "retr_returned" /\ fetchCount = 1 /\ fetched = <<>>) =>
       (~fetchError /\ result = <<>>)

\* a call whose fetch failed has thrown
C21_Witness == fetchError /\ fetchCount = 1 /\ rpc = "retr_threw"

\* ---- C22 ------------------------------------------------------------------
\* C22: a call of retrieveTopChunks, and so a chat request, sends at most one
\* chunk fetch to storage; after a failed fetch neither retrieveTopChunks nor
\* the chat handler fetches again.
C22_AtMostOneFetch ==
  /\ fetchCount <= 1
  /\ fetchError => (fetchCount = 1 /\ rpc = "retr_threw")

\* a chat request whose only fetch failed has been answered
C22_Witness == cpc = "chat_responded" /\ fetchError /\ fetchCount = 1

\* ---- C23 ------------------------------------------------------------------
\* C23: no step of a call of retrieveTopChunks, from the call to its return or
\* throw, changes the stored chunks or the document records.
C23_RetrievalReadOnly ==
  [][(rpc' # rpc) => (stored' = stored /\ documents' = documents)]_vars

\* a call returned chunks of a stored document
C23_Witness == rpc = "retr_returned" /\ Len(result) > 0 /\ documents # {}

\* ---- vocabulary of the upload properties ----------------------------------
\* the stored chunk rows of a document
RowsOf(d) == {r \in stored : r.doc_id = d}

\* the status of the document record of a document
StatusOf(d) == (CHOOSE r \in documents : r.doc_id = d).status

\* the current upload request has been answered
UploadAnswered == upc = "up_responded" /\ Len(upResponses) = 1

\* the current upload request has been answered 200
UploadSucceeded == UploadAnswered /\ upResponses[1].code = 200

\* the current upload request has been answered after a failed batch insert
BatchFailed == UploadAnswered /\ upResponses[1].error = "chunk_insert_error"

\* ---- C24 ------------------------------------------------------------------
\* C24: every batch handed to storage holds at most the batch size of records;
\* after a successful upload each chunk the chunker returned is stored in
\* exactly one row, whose chunk_index is the chunk's position in the chunker
\* output; no two stored rows have the same doc_id and chunk_index.
C24_EachChunkStoredOnce ==
  /\ \A b \in 1..Len(upBatches) : Len(upBatches[b]) \in 1..UploadBatchSize
  /\ \A r \in stored : \A q \in stored :
       (r.doc_id = q.doc_id /\ r.chunk_index = q.chunk_index) => r = q
  /\ UploadSucceeded =>
       /\ Cardinality(RowsOf(upDocId)) = Len(chunks)
       /\ \A i \in 1..Len(chunks) :
            \E r \in RowsOf(upDocId) :
              r.chunk_index = i - 1 /\ r.content = chunks[i].content

\* a successful upload whose chunks went out in more than one batch
C24_Witness == UploadSucceeded /\ Len(upBatches) >= 2 /\ Len(chunks) > UploadBatchSize

\* ---- C25 ------------------------------------------------------------------
\* C25: a stored chunk row stays in the table unchanged through every step of
\* every upload and chat request.
C25_ChunksWriteOnce == [][\A r \in stored : r \in stored']_vars

\* the first document's chunks are stored, a second upload and a chat request
\* that read them have both been answered
C25_Witness ==
  /\ RowsOf("d1") # {}
  /\ upDocId = "d2" /\ upc = "up_responded"
  /\ cpc = "chat_responded" /\ Len(webhookCalls) = 1
  /\ Len(webhookCalls[1].retrieved_chunks) > 0

\* ---- C26 ------------------------------------------------------------------
\* C26: once the chat handler has called retrieveTopChunks, the webhook is
\* called exactly once whatever the outcome: after a failed retrieval with the
\* attachments and an empty retrieved_chunks list, after a successful one with
\* the attachments and the retrieved chunks; it is not called before the
\* retrieval has ended.
C26_WebhookCalledOnceAfterRetrieval ==
  docIdsGiven =>
    /\ cpc = "chat_retrieving" => webhookCalls = <<>>
    /\ cpc \in {"chat_webhook", "chat_responded"} =>
         /\ Len(webhookCalls) = 1
         /\ webhookCalls[1].user_message = chatMessage
         /\ webhookCalls[1].has_attachments
         /\ webhookCalls[1].attachments = chatAtts
         /\ webhookCalls[1].has_retrieved_chunks
         /\ webhookCalls[1].retrieved_chunks = (IF rpc = "retr_threw" THEN <<>> ELSE result)
         /\ retrievalFailed <=> rpc = "retr_threw"

\* a request whose retrieval failed was forwarded to the webhook and answered 200
C26_Witness ==
  /\ cpc = "chat_responded" /\ retrievalFailed
  /\ Len(webhookCalls) = 1
  /\ chatResponses[1].code = 200

\* ---- C27 ------------------------------------------------------------------
\* the status of a document record changes only from "uploaded", and only to
\* "chunked" or "failed"; a new record starts as "uploaded"
StatusMovesForward ==
  \A q \in documents' :
    \/ \E r \in documents : r.doc_id = q.doc_id /\ r.status = q.status
    \/ \E r \in documents : r.doc_id = q.doc_id /\ r.status = "uploaded"
                             /\ q.status \in {"chunked", "failed"}
    \/ (\A r \in documents : r.doc_id # q.doc_id) /\ q.status = "uploaded"

\* the record of the current upload is "chunked" only when every chunk of the
\* chunker output is stored
ChunkedOnlyAfterAllBatches ==
  (\E r \in documents : r.doc_id = upDocId /\ r.status = "chunked") =>
    Cardinality(RowsOf(upDocId)) = Len(chunks)

\* after a failed batch insert the request is answered 500, the rows of the
\* batches before it are all that is stored, and the status is one of sts
FailedBatchStops(sts) ==
  BatchFailed =>
    /\ upResponses[1].code = 500
    /\ Cardinality(RowsOf(upDocId)) = upI
    /\ Len(upBatches) * UploadBatchSize = upI + UploadBatchSize
    /\ StatusOf(upDocId) \in sts

\* C27: the document status moves only uploaded -> chunked or uploaded ->
\* failed, it is "chunked" only after every batch was inserted, and after a
\* failed batch insert the status is "failed", no later batch is inserted and
\* the request is answered 500.
C27_StatusFollowsBatches ==
  [][/\ StatusMovesForward
     /\ ChunkedOnlyAfterAllBatches'
     /\ FailedBatchStops({"failed"})']_vars

\* C27 (amended): as above, but after a failed batch insert the status is
\* "failed" only if the update that writes it succeeded; otherwise it is still
\* "uploaded".  It is never "chunked".
C27_StatusFollowsBatchesIfUpdated ==
  [][/\ StatusMovesForward
     /\ ChunkedOnlyAfterAllBatches'
     /\ FailedBatchStops({"failed", "uploaded"})']_vars

\* the second batch failed after the first was inserted; the record is "failed"
C27_Witness == BatchFailed /\ upI > 0 /\ StatusOf(upDocId) = "failed"

\* ---- C28 ------------------------------------------------------------------
\* C28: an upload request that carries a PDF is eventually answered, with
\* exactly one response, and never with more than one.
C28_UploadAnswersOnce ==
  /\ [](Len(upResponses) <= 1)
  /\ (upFile = "pdf" /\ upc # "idle") ~> UploadAnswered

\* ---- C29 ------------------------------------------------------------------
\* C29: when the response of an upload reports status "chunked" for a doc_id,
\* the document record of that doc_id has status "chunked" and chunks_count
\* chunk rows of it are stored.
C29_ChunkedResponseMatchesStore ==
  (UploadAnswered /\ upResponses[1].status = "chunked") =>
    /\ StatusOf(upResponses[1].doc_id) = "chunked"
    /\ Cardinality(RowsOf(upResponses[1].doc_id)) = upResponses[1].chunks_count

\* C29 (amended): when the response of an upload reports status "chunked" for a
\* doc_id, chunks_count chunk rows of it are stored, with the chunk_index
\* values 0 .. chunks_count - 1, and the document record has status "chunked",
\* or still "uploaded" when the final status update failed.
C29_ChunkedResponseMatchesChunks ==
  (UploadAnswered /\ upResponses[1].status = "chunked") =>
    /\ StatusOf(upResponses[1].doc_id) \in {"chunked", "uploaded"}
    /\ Cardinality(RowsOf(upResponses[1].doc_id)) = upResponses[1].chunks_count
    /\ {r.chunk_index : r \in RowsOf(upResponses[1].doc_id)} =
         0..(upResponses[1].chunks_count - 1)

\* an upload with chunks was answered "chunked" and its record is "chunked"
C29_Witness ==
  /\ UploadAnswered /\ upResponses[1].status = "chunked"
  /\ upResponses[1].chunks_count > 0
  /\ StatusOf(upResponses[1].doc_id) = "chunked"

\* ---- C30 ------------------------------------------------------------------
\* C30: for a valid configuration, when splitIntoChunks has returned, every
\* character of the text that is not whitespace lies in the span
\* [char_start, char_end) of a returned chunk.
C30_NonWhitespaceIsCovered ==
  (ValidConfig /\ Returned) =>
    \A o \in 0..(Len(text) - 1) :
      ~IsSpace(text[o + 1]) =>
        \E i \in 1..Len(chunks) : chunks[i].char_start <= o /\ o < chunks[i].char_end

\* a returned call that skipped a whitespace-only window of a text with letters
C30_Witness ==
  /\ ValidConfig /\ Returned /\ HasNonSpace(text)
  /\ CoveredOffsets(chunks) # 0..(Len(text) - 1)

====
